---- MODULE Spec2Model ----
(***************************************************************************)
(* A model of schemathesis' case-strategy composition (_hypothesis.py) and *)
(* of its serializer registry and built-in serializers (serializers.py).   *)
(*                                                                         *)
(* The four parts of the program share no state, so each has its own       *)
(* specification over the module's variables:                              *)
(*   RegistrySpec   SERIALIZERS under register / unregister / get          *)
(*   HeaderSpec     is_valid_header on a header mapping                    *)
(*   CaseSpec       get_case_strategy and get_examples for one Endpoint    *)
(*   SerializeSpec  the built-in serializers applied to a Case's payload   *)
(* A specification leaves the variables of the other parts at their idle   *)
(* values.                                                                 *)
(***************************************************************************)
EXTENDS Integers, Sequences, FiniteSets, TLC

VARIABLES
    SERIALIZERS,    \* serializers.py:20, media type -> serializer class
    regLast,        \* the last registry call: its arguments and its outcome
    headers,        \* the mapping handed to is_valid_header
    invalidSyntax,  \* the header names on which check_header_validity raises
    hdrResult,      \* what is_valid_header returned ("unset" before the call)
    endpoint,       \* the Endpoint: method and the six schemas
    case,           \* the last Case built
    caseOrigin,     \* which function built it, and the pinned category
    caseInvalid,    \* check_header_validity's outcome on case.headers
    remaining,      \* get_examples: the PARAMETERS not yet visited
    yieldedFor,     \* get_examples: the categories a Case was yielded for
    nYielded,       \* get_examples: how many Cases were yielded
    original,       \* the payload as generated, before any serializer call
    payload,        \* the payload object the Case holds now
    call,           \* the last serializer call: media type and transport
    result          \* the keyword arguments that call returned

vars == <<SERIALIZERS, regLast, headers, invalidSyntax, hdrResult,
          endpoint, case, caseOrigin, caseInvalid, remaining, yieldedFor,
          nYielded, original, payload, call, result>>

registryVars == <<SERIALIZERS, regLast>>
headerVars == <<headers, invalidSyntax, hdrResult>>
caseVars == <<endpoint, case, caseOrigin, caseInvalid, remaining, yieldedFor, nYielded>>
serializeVars == <<original, payload, call, result>>

\* Python's None, where the value is a serializer class or absent.
None == "None"

\* A dict with no entries.
EmptyDict == [k \in {} |-> None]

(***************************************************************************)
(* Media types.  A media type "main/p1+p2; params" is the record of its    *)
(* main type, the "+"-separated parts of its subtype and its parameters.   *)
(***************************************************************************)
MT(main, sub, params) == [main |-> main, sub |-> sub, params |-> params]

APPLICATION_JSON == MT("application", <<"json">>, "")
TEXT_PLAIN == MT("text", <<"plain">>, "")
APPLICATION_XML == MT("application", <<"xml">>, "")
TEXT_YAML == MT("text", <<"yaml">>, "")
TEXT_X_YAML == MT("text", <<"x-yaml">>, "")
APPLICATION_X_YAML == MT("application", <<"x-yaml">>, "")
TEXT_VND_YAML == MT("text", <<"vnd.yaml">>, "")
MULTIPART_FORM_DATA == MT("multipart", <<"form-data">>, "")
FORM_URLENCODED == MT("application", <<"x-www-form-urlencoded">>, "")
OCTET_STREAM == MT("application", <<"octet-stream">>, "")
\* Media types a caller brings.
APPLICATION_LD_JSON == MT("application", <<"ld", "json">>, "")
APPLICATION_PROBLEM_XML == MT("application", <<"problem", "xml">>, "")
TEXT_PLAIN_UTF8 == MT("text", <<"plain">>, "charset=utf-8")
APPLICATION_CSV == MT("application", <<"csv">>, "")
TEXT_CSV == MT("text", <<"csv">>, "")

\* utils.is_json_media_type: application/json or application/*+json.
is_json_media_type(media_type) ==
    /\ media_type.main = "application"
    /\ media_type.sub[Len(media_type.sub)] = "json"

\* utils.is_plain_text_media_type: text/plain, whatever the parameters.
is_plain_text_media_type(media_type) ==
    /\ media_type.main = "text"
    /\ media_type.sub = <<"plain">>

\* utils.is_xml_media_type: application/xml or application/*+xml.
is_xml_media_type(media_type) ==
    /\ media_type.main = "application"
    /\ media_type.sub[Len(media_type.sub)] = "xml"

(***************************************************************************)
(* Serializer classes.  issubclass(serializer, Serializer) is the          *)
(* runtime-checkable protocol test: the class has both methods.            *)
(***************************************************************************)
Methods(serializer) ==
    IF serializer = "NotASerializer" THEN {"as_requests"}
    ELSE {"as_requests", "as_werkzeug"}

IsSerializer(serializer) == {"as_requests", "as_werkzeug"} \subseteq Methods(serializer)

\* The registry once the module is imported: the @register decorators.
BuiltinSerializers ==
    (APPLICATION_JSON :> "JSONSerializer")
    @@ (TEXT_YAML :> "YAMLSerializer")
    @@ (TEXT_X_YAML :> "YAMLSerializer")
    @@ (APPLICATION_X_YAML :> "YAMLSerializer")
    @@ (TEXT_VND_YAML :> "YAMLSerializer")
    @@ (APPLICATION_XML :> "XMLSerializer")
    @@ (MULTIPART_FORM_DATA :> "MultipartSerializer")
    @@ (FORM_URLENCODED :> "URLEncodedFormSerializer")
    @@ (TEXT_PLAIN :> "TextSerializer")
    @@ (OCTET_STREAM :> "OctetStreamSerializer")

\* The arguments the callers of the model pass to the registry.
ArgMediaTypes ==
    {APPLICATION_JSON, APPLICATION_LD_JSON, TEXT_PLAIN, TEXT_PLAIN_UTF8,
     APPLICATION_XML, APPLICATION_PROBLEM_XML, APPLICATION_CSV}
ArgAliases == {{}, {TEXT_CSV}}
ArgSerializers == {"CSVSerializer", "NotASerializer"}

\* d[k] = v for every k of keys, the other entries kept.
DictSet(d, keys, v) == [k \in DOMAIN d \cup keys |-> IF k \in keys THEN v ELSE d[k]]

\* del d[k]
DictDel(d, k) == [j \in DOMAIN d \ {k} |-> d[j]]

\* normalized without its JSON rule, which C4 must tell from normalized.
normalized_without_json(media_type) ==
    LET m2 == IF is_plain_text_media_type(media_type) THEN TEXT_PLAIN ELSE media_type
    IN  IF is_xml_media_type(m2) THEN APPLICATION_XML ELSE m2

\* The key get looks up: the three `if`s of get, in their order.
normalized(media_type) ==
    LET m1 == IF is_json_media_type(media_type) THEN APPLICATION_JSON ELSE media_type
        m2 == IF is_plain_text_media_type(m1) THEN TEXT_PLAIN ELSE m1
    IN  IF is_xml_media_type(m2) THEN APPLICATION_XML ELSE m2

\* serializers.get
get(media_type) ==
    LET key == normalized(media_type)
    IN  IF key \in DOMAIN SERIALIZERS THEN SERIALIZERS[key] ELSE None

RegCall(op, media_type, aliases, serializer, raised, out) ==
    [op |-> op, media_type |-> media_type, aliases |-> aliases,
     serializer |-> serializer, raised |-> raised, out |-> out]

\* register(media_type, aliases=aliases)(serializer)
Register(media_type, aliases, serializer) ==
    /\ IF ~IsSerializer(serializer)
       THEN /\ SERIALIZERS' = SERIALIZERS
            /\ regLast' = RegCall("register", media_type, aliases, serializer, "TypeError", None)
       ELSE /\ SERIALIZERS' = DictSet(SERIALIZERS, {media_type} \cup aliases, serializer)
            /\ regLast' = RegCall("register", media_type, aliases, serializer, "", serializer)
    /\ UNCHANGED <<headerVars, caseVars, serializeVars>>

\* unregister that forgets the `del`, which C3 must tell from Unregister.
Unregister_without_del(media_type) ==
    /\ SERIALIZERS' = SERIALIZERS
    /\ regLast' = RegCall("unregister", media_type, {}, None,
                          IF media_type \in DOMAIN SERIALIZERS THEN "" ELSE "KeyError", None)
    /\ UNCHANGED <<headerVars, caseVars, serializeVars>>

\* unregister(media_type)
Unregister(media_type) ==
    /\ IF media_type \in DOMAIN SERIALIZERS
       THEN /\ SERIALIZERS' = DictDel(SERIALIZERS, media_type)
            /\ regLast' = RegCall("unregister", media_type, {}, None, "", None)
       ELSE /\ SERIALIZERS' = SERIALIZERS
            /\ regLast' = RegCall("unregister", media_type, {}, None, "KeyError", None)
    /\ UNCHANGED <<headerVars, caseVars, serializeVars>>

\* A caller's get(media_type), its return value kept in regLast.out.
Lookup(media_type) ==
    /\ regLast' = RegCall("get", media_type, {}, None, "", get(media_type))
    /\ UNCHANGED <<SERIALIZERS, headerVars, caseVars, serializeVars>>

(***************************************************************************)
(* The Header Validity Filter.  A header value is the sequence of its code *)
(* points.                                                                 *)
(***************************************************************************)
HT == 9
LF == 10
CR == 13
SP == 32
\* The largest code point "latin-1" encodes.
Latin1Max == 255

\* The characters of the model's header values: the four the filter names,
\* the letter "a" (97) and U+0100 (256), which Latin-1 does not hold.
Alphabet == {HT, LF, CR, SP, 97, 256}

\* The longest header value of HeaderSpec.
MaxHeaderLen == 3

Strings(n) == UNION {[1..k -> Alphabet] : k \in 0..n}

BoolName(b) == IF b THEN "True" ELSE "False"

\* value.encode("latin-1") does not raise
is_latin_1_encodable(value) == \A i \in 1..Len(value) : value[i] <= Latin1Max

\* The pattern without its CR alternative, r"\n(?![ \t])", which C10 must tell
\* from INVALID_HEADER_RE.
INVALID_HEADER_RE_search_lf_only(value) ==
    \E i \in 1..Len(value) :
        value[i] = LF /\ ~(i < Len(value) /\ value[i + 1] \in {SP, HT})

\* bool(INVALID_HEADER_RE.search(value)), r"\n(?![ \t])|\r(?![ \t\n])"
INVALID_HEADER_RE_search(value) ==
    \E i \in 1..Len(value) :
        \/ value[i] = LF /\ ~(i < Len(value) /\ value[i + 1] \in {SP, HT})
        \/ value[i] = CR /\ ~(i < Len(value) /\ value[i + 1] \in {SP, HT, LF})

\* requests.utils.check_header_validity((name, value)) returns without raising.
\* The library is not part of the program: `rejected` holds the names of the
\* pairs on which it raises InvalidHeader, and every outcome is possible.
check_header_validity(name, value, rejected) == name \notin rejected

has_invalid_characters(name, value, rejected) ==
    IF check_header_validity(name, value, rejected)
    THEN INVALID_HEADER_RE_search(value)
    ELSE TRUE

is_valid_header(hdrs, rejected) ==
    \A name \in DOMAIN hdrs :
        /\ is_latin_1_encodable(hdrs[name])
        /\ ~has_invalid_characters(name, hdrs[name], rejected)

\* The header mappings of HeaderSpec: X-A with any value, X-B with a short one.
HeaderInputs ==
    {EmptyDict}
    \cup {("X-A" :> a) : a \in Strings(MaxHeaderLen)}
    \cup {("X-B" :> b) : b \in Strings(1)}
    \cup {("X-A" :> a) @@ ("X-B" :> b) : a \in Strings(MaxHeaderLen), b \in Strings(1)}

\* is_valid_header(headers) is called and its result kept.
CallIsValidHeader ==
    /\ hdrResult = "unset"
    /\ hdrResult' = BoolName(is_valid_header(headers, invalidSyntax))
    /\ UNCHANGED <<headers, invalidSyntax, registryVars, caseVars, serializeVars>>

(***************************************************************************)
(* Case strategies.  A strategy is the set of the values it can produce;   *)
(* a schema is a dict that may hold the key "example".                     *)
(***************************************************************************)
PARAMETERS == {"path_parameters", "headers", "cookies", "query", "body", "form_data"}

HTTPMethods == {"GET", "POST"}

\* The header values the schema-generation engine draws in CaseSpec.
CaseHeaderValues == {<<97>>, <<LF>>, <<256>>}

\* The values that conform to the schema with this title.
Conforming(title) ==
    IF title = "headers" THEN {("X-A" :> v) : v \in CaseHeaderValues}
    ELSE IF title = "body" THEN {"body-1", "body-2"}
    ELSE {"generated"}

\* hypothesis_jsonschema.from_schema: the strategy of the conforming values.
\* The "example" key is an annotation and does not constrain them.
from_schema(schema) == Conforming(schema.title)

\* The literal a schema may declare as its example.
ExampleValues(name) == IF name = "headers" THEN Conforming("headers") ELSE {"example"}

Schemas(name) ==
    {[title |-> name]} \cup {[title |-> name, example |-> e] : e \in ExampleValues(name)}

\* One draw from each strategy of a dict of strategies.
RECURSIVE Choices(_)
Choices(strategies) ==
    IF DOMAIN strategies = {} THEN {EmptyDict}
    ELSE LET k == CHOOSE n \in DOMAIN strategies : TRUE
         IN  {(k :> v) @@ r : v \in strategies[k], r \in Choices(DictDel(strategies, k))}

\* The Endpoints of CaseSpec: either method, and every combination of the six
\* schemas with and without an example.
Endpoints ==
    {[path |-> "/users", method |-> m, base_url |-> "http://127.0.0.1"] @@ schemas :
        m \in HTTPMethods, schemas \in Choices([n \in PARAMETERS |-> Schemas(n)])}

\* st.builds(partial(Case, **static_parameters), **strategies): the Cases the
\* strategy produces. A keyword given twice makes Case(...) raise TypeError.
builds(static_parameters, strategies) ==
    IF DOMAIN static_parameters \cap DOMAIN strategies # {} THEN {}
    ELSE {static_parameters @@ drawn : drawn \in Choices(strategies)}

\* _get_case_strategy with the GET branch tested after the pinned body, which
\* C1 must tell from _get_case_strategy.
get_case_strategy_inner_pinned_first(ep, extra_static_parameters, strategies) ==
    LET static_parameters ==
            extra_static_parameters
            @@ [path |-> ep.path, method |-> ep.method, base_url |-> ep.base_url]
    IN  IF "body" \in DOMAIN static_parameters
        THEN builds(static_parameters, strategies)
        ELSE IF ep.method = "GET"
        THEN builds(DictSet(static_parameters, {"body"}, None), DictDel(strategies, "body"))
        ELSE builds(static_parameters, DictSet(strategies, {"body"}, from_schema(ep.body)))

\* _get_case_strategy
get_case_strategy_inner(ep, extra_static_parameters, strategies) ==
    LET static_parameters ==
            extra_static_parameters
            @@ [path |-> ep.path, method |-> ep.method, base_url |-> ep.base_url]
    IN  IF ep.method = "GET"
        THEN builds(DictSet(static_parameters, {"body"}, None), DictDel(strategies, "body"))
        ELSE IF "body" \notin DOMAIN static_parameters
        THEN builds(static_parameters, DictSet(strategies, {"body"}, from_schema(ep.body)))
        ELSE builds(static_parameters, strategies)

\* strategy.filter(is_valid_header)
filter_is_valid_header(strategy, rejected) ==
    {h \in strategy : is_valid_header(h, rejected)}

\* get_case_strategy
get_case_strategy(ep, rejected) ==
    LET static_kwargs == [path |-> ep.path, method |-> ep.method, base_url |-> ep.base_url]
        strategies ==
            [name \in PARAMETERS \ {"body"} |->
                IF name = "headers"
                THEN filter_is_valid_header(from_schema(ep.headers), rejected)
                ELSE from_schema(ep[name])]
    IN  get_case_strategy_inner(ep, static_kwargs, strategies)

\* get_examples' strategy with the example left out of the static parameters,
\* which C7 must tell from example_strategy.
example_strategy_unpinned(ep, name) ==
    get_case_strategy_inner(ep, EmptyDict, [other \in PARAMETERS |-> from_schema(ep[other])])

\* The strategy get_examples builds for the category `name`.
example_strategy(ep, name) ==
    LET strategies == [other \in PARAMETERS \ {name} |-> from_schema(ep[other])]
        static_parameters == (name :> ep[name].example)
    IN  get_case_strategy_inner(ep, static_parameters, strategies)

Origin(fn, pinned) == [fn |-> fn, pinned |-> pinned]

\* One iteration of get_examples' loop over PARAMETERS, a frozenset whose
\* iteration order is arbitrary: `name` is any category not yet visited.
get_examples_step(name) ==
    /\ name \in remaining
    /\ remaining' = remaining \ {name}
    /\ IF "example" \in DOMAIN endpoint[name]
       THEN /\ \E c \in example_strategy(endpoint, name) :
                 \E rejected \in SUBSET DOMAIN c.headers :
                     /\ case' = c
                     /\ caseInvalid' = rejected
            /\ caseOrigin' = Origin("get_examples", name)
            /\ yieldedFor' = yieldedFor \cup {name}
            /\ nYielded' = nYielded + 1
       ELSE UNCHANGED <<case, caseInvalid, caseOrigin, yieldedFor, nYielded>>
    /\ UNCHANGED <<endpoint, registryVars, headerVars, serializeVars>>

\* The test runs once create_test has added the examples: one Case is drawn
\* from the strategy get_case_strategy returned.
DrawCase ==
    /\ remaining = {}
    /\ \E rejected \in SUBSET {"X-A"} :
          \E c \in get_case_strategy(endpoint, rejected) :
              /\ case' = c
              /\ caseInvalid' = rejected
    /\ caseOrigin' = Origin("get_case_strategy", None)
    /\ UNCHANGED <<endpoint, remaining, yieldedFor, nYielded,
                   registryVars, headerVars, serializeVars>>

(***************************************************************************)
(* Serializers.  A Python value is a record of its type t and its content: *)
(* n for a number (a float holds its hundredths), s for text or bytes,     *)
(* items for the elements of a list or the entries of a dict.              *)
(***************************************************************************)
Val(t, n, s, items) == [t |-> t, n |-> n, s |-> s, items |-> items]
VInt(n) == Val("int", n, "", <<>>)
VBool(b) == Val("bool", IF b THEN 1 ELSE 0, "", <<>>)
VFloat(hundredths) == Val("float", hundredths, "", <<>>)
VStr(s) == Val("str", 0, s, <<>>)
VBytes(s) == Val("bytes", 0, s, <<>>)
VNone == Val("NoneType", 0, "", <<>>)
VList(items) == Val("list", 0, "", items)
VDict(entries) == Val("dict", 0, "", entries)
\* What a collaborator outside this module returns: fn applied to args.
External(fn, args) == Val("external", 0, fn, args)

Digit(d) ==
    CASE d = 0 -> "0" [] d = 1 -> "1" [] d = 2 -> "2" [] d = 3 -> "3" [] d = 4 -> "4"
      [] d = 5 -> "5" [] d = 6 -> "6" [] d = 7 -> "7" [] d = 8 -> "8" [] d = 9 -> "9"

\* str(n) of an int
RECURSIVE IntStr(_)
IntStr(n) ==
    IF n < 0 THEN "-" \o IntStr(-n)
    ELSE IF n < 10 THEN Digit(n)
    ELSE IntStr(n \div 10) \o Digit(n % 10)

\* str(x) of the float x = hundredths / 100: the shortest decimal that reads back.
FloatStr(hundredths) ==
    LET a == IF hundredths < 0 THEN -hundredths ELSE hundredths
        frac == a % 100
    IN  (IF hundredths < 0 THEN "-" ELSE "")
        \o IntStr(a \div 100) \o "."
        \o (IF frac % 10 = 0 THEN Digit(frac \div 10)
            ELSE Digit(frac \div 10) \o Digit(frac % 10))

\* The order in which a dict of the model holds its keys.
KeyOrder == <<"f", "g">>

\* repr(value)
RECURSIVE Repr(_)
RECURSIVE JoinRepr(_, _)
JoinRepr(items, i) ==
    IF i > Len(items) THEN ""
    ELSE (IF i > 1 THEN ", " ELSE "") \o Repr(items[i]) \o JoinRepr(items, i + 1)

Repr(value) ==
    CASE value.t = "int" -> IntStr(value.n)
      [] value.t = "bool" -> (IF value.n = 1 THEN "True" ELSE "False")
      [] value.t = "float" -> FloatStr(value.n)
      [] value.t = "str" -> "'" \o value.s \o "'"
      [] value.t = "bytes" -> "b'" \o value.s \o "'"
      [] value.t = "NoneType" -> "None"
      [] value.t = "list" -> "[" \o JoinRepr(value.items, 1) \o "]"
      [] value.t = "dict" ->
            LET keys == SelectSeq(KeyOrder, LAMBDA k : k \in DOMAIN value.items)
                RECURSIVE Entries(_)
                Entries(i) ==
                    IF i > Len(keys) THEN ""
                    ELSE (IF i > 1 THEN ", " ELSE "")
                         \o "'" \o keys[i] \o "': " \o Repr(value.items[keys[i]])
                         \o Entries(i + 1)
            IN  "{" \o Entries(1) \o "}"

\* str(value)
Str(value) == IF value.t = "str" THEN value.s ELSE Repr(value)

\* _to_json without its None branch, which C5 must tell from _to_json.
to_json_without_null(value) ==
    IF value.t = "bytes" THEN ("data" :> value) ELSE ("json" :> value)

\* _to_json
to_json(value) ==
    IF value.t = "bytes" THEN ("data" :> value)
    ELSE IF value.t = "NoneType" THEN ("data" :> VBytes("null"))
    ELSE ("json" :> value)

\* _to_yaml; yaml.dump is PyYAML's.
to_yaml(value) ==
    IF value.t = "bytes" THEN ("data" :> value)
    ELSE ("data" :> External("yaml.dump", <<value>>))

\* _should_coerce_to_bytes that lets floats through, which C6 must tell from
\* _should_coerce_to_bytes.
should_coerce_to_bytes_but_floats(item) ==
    item.t \notin {"bytes", "str", "int", "bool", "float"}

\* _should_coerce_to_bytes: a bool is an int.
should_coerce_to_bytes(item) == item.t \notin {"bytes", "str", "int", "bool"}

\* _to_bytes: str(value).encode(errors="ignore")
to_bytes(value) == VBytes(Str(value))

\* _prepare_form_data: the dict it returns, which is the dict it was given,
\* rewritten in place.
prepare_form_data(data) ==
    VDict([name \in DOMAIN data.items |->
            LET value == data.items[name]
            IN  IF value.t = "list"
                THEN VList([i \in 1..Len(value.items) |->
                              IF should_coerce_to_bytes(value.items[i])
                              THEN to_bytes(value.items[i])
                              ELSE value.items[i]])
                ELSE IF should_coerce_to_bytes(value) THEN to_bytes(value)
                ELSE value])

\* The longest list a form field holds in SerializeSpec.
MaxListLen == 2

Scalars ==
    {VInt(1), VBool(TRUE), VStr("text"), VBytes("raw"), VFloat(314), VFloat(-50), VNone}

Lists == {VList(q) : q \in UNION {[1..k -> Scalars] : k \in 0..MaxListLen}}

FieldValues == Scalars \cup Lists

\* The payloads a Case holds in SerializeSpec.
Payloads ==
    FieldValues
    \cup {VDict(EmptyDict)}
    \cup {VDict("f" :> v) : v \in FieldValues}
    \cup {VDict(("f" :> v) @@ ("g" :> w)) : v \in FieldValues, w \in Scalars}

SerializerClasses ==
    {"JSONSerializer", "YAMLSerializer", "XMLSerializer", "MultipartSerializer",
     "URLEncodedFormSerializer", "TextSerializer", "OctetStreamSerializer"}

Transports == {"as_requests", "as_werkzeug"}

\* What a serializer call leaves: the keyword arguments it returns, the
\* payload object as it is after the call, and the exception it raised.
Out(kwargs, after, raised) == [kwargs |-> kwargs, after |-> after, raised |-> raised]

\* MultipartSerializer.as_requests; prepare_multipart is the operation's.
multipart_as_requests(value) ==
    IF value.t = "bytes" THEN Out(("data" :> value), value, "")
    ELSE IF value.t # "dict" THEN Out(EmptyDict, value, "AttributeError")
    ELSE LET multipart == prepare_form_data(value)
         IN  Out([files |-> External("prepare_multipart[0]", <<multipart>>),
                  data |-> External("prepare_multipart[1]", <<multipart>>)],
                 multipart, "")

\* TextSerializer.as_requests and .as_werkzeug
text_serializer(transport, value) ==
    IF value.t = "bytes" THEN ("data" :> value)
    ELSE IF transport = "as_requests" THEN ("data" :> VBytes(Str(value)))
    ELSE ("data" :> VStr(Str(value)))

\* serializer().<transport>(context, value) of a built-in serializer class.
\* _to_xml is the XML encoder's (schemathesis._xml).
serializer_call(serializer, transport, value) ==
    CASE serializer = "JSONSerializer" -> Out(to_json(value), value, "")
      [] serializer = "YAMLSerializer" -> Out(to_yaml(value), value, "")
      [] serializer = "XMLSerializer" ->
            Out(("data" :> External("_to_xml", <<value>>)), value, "")
      [] serializer = "MultipartSerializer" ->
            IF transport = "as_requests" THEN multipart_as_requests(value)
            ELSE Out(("data" :> value), value, "")
      [] serializer = "URLEncodedFormSerializer" -> Out(("data" :> value), value, "")
      [] serializer = "TextSerializer" -> Out(text_serializer(transport, value), value, "")
      [] serializer = "OctetStreamSerializer" -> Out(("data" :> value), value, "")

Call(serializer, transport, value, raised) ==
    [serializer |-> serializer, transport |-> transport, value |-> value, raised |-> raised]

\* The Case's payload is serialized: the serializer is handed the payload
\* object itself.
Serialize(serializer, transport) ==
    LET out == serializer_call(serializer, transport, payload)
    IN  /\ call' = Call(serializer, transport, payload, out.raised)
        /\ result' = out.kwargs
        /\ payload' = out.after
        /\ UNCHANGED <<original, registryVars, headerVars, caseVars>>

(***************************************************************************)
(* The specifications.                                                     *)
(***************************************************************************)
RegistryIdle ==
    /\ SERIALIZERS = BuiltinSerializers
    /\ regLast = RegCall("register", OCTET_STREAM, {}, "OctetStreamSerializer", "",
                         "OctetStreamSerializer")

HeaderIdle ==
    /\ headers = EmptyDict
    /\ invalidSyntax = {}
    /\ hdrResult = "unset"

CaseIdle ==
    /\ case = EmptyDict
    /\ caseOrigin = Origin("none", None)
    /\ caseInvalid = {}
    /\ remaining = PARAMETERS
    /\ yieldedFor = {}
    /\ nYielded = 0

SerializeIdle ==
    /\ call = Call("none", "none", VNone, "")
    /\ result = EmptyDict

FirstEndpoint == CHOOSE ep \in Endpoints : TRUE

\* The module is imported: the built-in serializers are registered.
RegistryInit ==
    /\ RegistryIdle /\ HeaderIdle /\ CaseIdle /\ SerializeIdle
    /\ endpoint = FirstEndpoint
    /\ original = VNone /\ payload = VNone

RegistryNext ==
    \/ \E m \in ArgMediaTypes, a \in ArgAliases, s \in ArgSerializers : Register(m, a, s)
    \/ \E m \in ArgMediaTypes : Unregister(m)
    \/ \E m \in ArgMediaTypes : Lookup(m)

RegistrySpec == RegistryInit /\ [][RegistryNext]_vars

\* A header mapping, and check_header_validity's verdict on each of its pairs.
HeaderInit ==
    /\ RegistryIdle /\ CaseIdle /\ SerializeIdle
    /\ endpoint = FirstEndpoint
    /\ original = VNone /\ payload = VNone
    /\ headers \in HeaderInputs
    /\ invalidSyntax \in SUBSET DOMAIN headers
    /\ hdrResult = "unset"

HeaderNext == CallIsValidHeader

HeaderSpec == HeaderInit /\ [][HeaderNext]_vars

\* An Endpoint, before create_test.
CaseInit ==
    /\ RegistryIdle /\ HeaderIdle /\ CaseIdle /\ SerializeIdle
    /\ endpoint \in Endpoints
    /\ original = VNone /\ payload = VNone

CaseNext ==
    \/ \E name \in PARAMETERS : get_examples_step(name)
    \/ DrawCase

CaseSpec == CaseInit /\ [][CaseNext]_vars

\* A Case with its generated payload, before it is serialized.
SerializeInit ==
    /\ RegistryIdle /\ HeaderIdle /\ CaseIdle /\ SerializeIdle
    /\ endpoint = FirstEndpoint
    /\ original \in Payloads
    /\ payload = original

SerializeNext == \E s \in SerializerClasses, t \in Transports : Serialize(s, t)

SerializeSpec == SerializeInit /\ [][SerializeNext]_vars

(***************************************************************************)
(* The claims.                                                             *)
(***************************************************************************)

\* C1: every Case built for an Endpoint whose method is GET has body None,
\* whether it was drawn from get_case_strategy's strategy or yielded by
\* get_examples, also when the body schema declares an example.
C1_GetBodyIsNone ==
    (caseOrigin.fn # "none" /\ endpoint.method = "GET") => case.body = None

\* C1's case: get_examples pins the body example of a GET Endpoint.
C1_Witness ==
    /\ caseOrigin = Origin("get_examples", "body")
    /\ endpoint.method = "GET"
    /\ "example" \in DOMAIN endpoint.body
    /\ case.body = None

\* C2: the headers of every Case, drawn from the strategy or yielded by
\* get_examples, satisfy is_valid_header.
C2_CaseHeadersValid ==
    caseOrigin.fn # "none" => is_valid_header(case.headers, caseInvalid)

\* The categories of the Endpoint that declare an example.
WithExample == {n \in PARAMETERS : "example" \in DOMAIN endpoint[n]}

\* C7 as stated: each Case get_examples yields has its category equal to the
\* example and the other categories generated, and one Case is yielded for
\* each category that declares an example and none for the others.
C7_AsStated ==
    /\ caseOrigin.fn = "get_examples" =>
          \A n \in PARAMETERS :
              IF n = caseOrigin.pinned THEN case[n] = endpoint[n].example
              ELSE case[n] \in from_schema(endpoint[n])
    /\ yieldedFor = WithExample \ remaining
    /\ nYielded = Cardinality(yieldedFor)

\* C7 amended: as stated, except that the body of a GET Endpoint's Case is
\* None, whether body is the pinned category or one of the others.
C7_ExamplesPinned ==
    /\ caseOrigin.fn = "get_examples" =>
          /\ caseOrigin.pinned \in WithExample
          /\ \A n \in PARAMETERS :
                IF n = "body" /\ endpoint.method = "GET" THEN case[n] = None
                ELSE IF n = caseOrigin.pinned THEN case[n] = endpoint[n].example
                ELSE case[n] \in from_schema(endpoint[n])
    /\ yieldedFor = WithExample \ remaining
    /\ nYielded = Cardinality(yieldedFor)

\* C7's case: get_examples has finished on an Endpoint with several examples,
\* its last Case pinned to the query example.
C7_Witness ==
    /\ remaining = {}
    /\ nYielded >= 2
    /\ caseOrigin = Origin("get_examples", "query")
    /\ case.query = "example"
    /\ case.cookies = "generated"

\* The media types the model names.
AllMediaTypes ==
    {APPLICATION_JSON, TEXT_PLAIN, APPLICATION_XML, TEXT_YAML, TEXT_X_YAML,
     APPLICATION_X_YAML, TEXT_VND_YAML, MULTIPART_FORM_DATA, FORM_URLENCODED,
     OCTET_STREAM, APPLICATION_LD_JSON, APPLICATION_PROBLEM_XML, TEXT_PLAIN_UTF8,
     APPLICATION_CSV, TEXT_CSV}

InNoFamily(m) ==
    ~is_json_media_type(m) /\ ~is_plain_text_media_type(m) /\ ~is_xml_media_type(m)

\* C3: for a media type m of no family, get(m) returns S right after
\* register(m) of a conforming S, and None right after unregister(m).
C3_RegisterThenUnregister ==
    LET m == regLast.media_type
    IN  (regLast.raised = "" /\ InNoFamily(m)) =>
            /\ regLast.op = "register" => get(m) = regLast.serializer
            /\ regLast.op = "unregister" => get(m) = None

\* C3's case: application/csv, registered by a caller, has been unregistered.
C3_Witness ==
    /\ regLast.op = "unregister"
    /\ regLast.raised = ""
    /\ regLast.media_type = APPLICATION_CSV
    /\ get(APPLICATION_CSV) = None

\* C4: get(m) is get("application/json") for a JSON-family m, get("text/plain")
\* for a plain-text one, get("application/xml") for an XML one, and the entry
\* under the literal m otherwise.
C4_FamiliesCollapse ==
    \A m \in AllMediaTypes :
        get(m) = IF is_json_media_type(m) THEN get(APPLICATION_JSON)
                 ELSE IF is_plain_text_media_type(m) THEN get(TEXT_PLAIN)
                 ELSE IF is_xml_media_type(m) THEN get(APPLICATION_XML)
                 ELSE IF m \in DOMAIN SERIALIZERS THEN SERIALIZERS[m]
                 ELSE None

\* C4's case: get("application/ld+json") returned the JSON serializer although
\* another serializer is stored under the literal key.
C4_Witness ==
    /\ regLast.op = "get"
    /\ regLast.media_type = APPLICATION_LD_JSON
    /\ regLast.out = "JSONSerializer"
    /\ APPLICATION_LD_JSON \in DOMAIN SERIALIZERS
    /\ SERIALIZERS[APPLICATION_LD_JSON] = "CSVSerializer"

\* C9: every key held in SERIALIZERS is its own canonical form, so every
\* entry is the one get returns for its key.
C9_KeysCanonical ==
    \A k \in DOMAIN SERIALIZERS :
        /\ normalized(k) = k
        /\ get(k) = SERIALIZERS[k]

\* C5: the JSON serializer returns, for either transport, {"data": payload}
\* for bytes, {"data": b"null"} for None and {"json": payload}, without a
\* "data" key, for any other payload.
C5_JsonMapping ==
    call.serializer = "JSONSerializer" =>
        /\ call.raised = ""
        /\ IF call.value.t = "bytes" THEN result = ("data" :> call.value)
           ELSE IF call.value.t = "NoneType" THEN result = ("data" :> VBytes("null"))
           ELSE /\ DOMAIN result = {"json"}
                /\ result["json"] = call.value

\* C5's case: None was serialized as JSON for werkzeug.
C5_Witness ==
    /\ call = Call("JSONSerializer", "as_werkzeug", VNone, "")
    /\ result = ("data" :> VBytes("null"))

\* The types a form field keeps.
KeptInForm(v) == v.t \in {"bytes", "str", "int", "bool"}

\* The dict MultipartSerializer.as_requests got back from _prepare_form_data.
Prepared == result["files"].items[1]

\* C6: _prepare_form_data keeps the keys; it keeps a bytes, text or integer
\* value, replaces every other element of a list by the bytes of its string
\* representation, and replaces any other value by the bytes of its string
\* representation: 3.14 gives b"3.14", "text" is kept, [1, 3.14] gives
\* [1, b"3.14"].
C6_FormCoercion ==
    (call.serializer = "MultipartSerializer" /\ call.transport = "as_requests"
        /\ call.value.t = "dict") =>
        LET before == call.value.items
            after == Prepared.items
        IN  /\ call.raised = ""
            /\ DOMAIN after = DOMAIN before
            /\ \A name \in DOMAIN before :
                  IF KeptInForm(before[name]) THEN after[name] = before[name]
                  ELSE IF before[name].t = "list"
                  THEN /\ after[name].t = "list"
                       /\ Len(after[name].items) = Len(before[name].items)
                       /\ \A i \in 1..Len(before[name].items) :
                             LET item == before[name].items[i]
                             IN  after[name].items[i] =
                                    IF KeptInForm(item) THEN item ELSE VBytes(Str(item))
                  ELSE after[name] = VBytes(Str(before[name]))
            /\ before = ("f" :> VFloat(314)) => after = ("f" :> VBytes("3.14"))
            /\ before = ("f" :> VStr("text")) => after = ("f" :> VStr("text"))
            /\ before = ("f" :> VList(<<VInt(1), VFloat(314)>>))
                  => after = ("f" :> VList(<<VInt(1), VBytes("3.14")>>))

\* C6's case: {"f": [1, 3.14], "g": None} was prepared.
C6_Witness ==
    /\ call.serializer = "MultipartSerializer"
    /\ call.transport = "as_requests"
    /\ call.value = VDict(("f" :> VList(<<VInt(1), VFloat(314)>>)) @@ ("g" :> VNone))
    /\ Prepared = VDict(("f" :> VList(<<VInt(1), VBytes("3.14")>>)) @@ ("g" :> VBytes("None")))

\* C8: a serializer call leaves the payload the Case holds equal to the
\* payload as generated.
C8_PayloadUnchanged == payload = original

\* A CR or LF of the value that a tab or a space does not follow.
BareCROrLF(value) ==
    \E i \in 1..Len(value) :
        /\ value[i] \in {CR, LF}
        /\ i = Len(value) \/ value[i + 1] \notin {SP, HT}

EveryCRLFContinued(value) ==
    \A i \in 1..Len(value) :
        /\ value[i] = LF => (i < Len(value) /\ value[i + 1] \in {SP, HT})
        /\ value[i] = CR => (i < Len(value) /\ value[i + 1] \in {SP, HT, LF})

====
